---- MODULE Spec2Model ----
(***************************************************************************)
(* SubscriptionManager (lib/supabase.ts): the realtime subscription        *)
(* registry with its exponential-backoff reconnection policy.              *)
(*                                                                         *)
(* The manager is a pair of static maps (key -> channel handle,            *)
(* key -> reconnect attempts).  Around it the model keeps what the         *)
(* manager's calls create outside the maps: the channels open at the       *)
(* realtime client, the channels that were removed but whose handlers can  *)
(* still be invoked until the transport has let go of them, and the        *)
(* one-shot timers started with setTimeout.                                *)
(***************************************************************************)
EXTENDS Integers, Sequences, FiniteSets, Bags, TLC

\* ---------------------------------------------------------------- bounds
\* pending setTimeout callbacks kept at once when two keys are in play
MaxPending == 1
\* pending setTimeout callbacks kept at once when one key is retried
MaxTimers == 5
\* automatic resubscribes counted per key before the model stops counting
MaxResubs == 6

\* ------------------------------------------------------ program constants
MAX_RECONNECT_ATTEMPTS == 5
BASE_DELAY_MS == 1000

\* subscription keys the callers use
Keys == {"k1", "k2"}
\* (table, callback, filter, options) of a subscribe call, as one value;
\* the callers of Spec pass the same ones every time
Params == {"p1"}
\* the key and the parameters of the retry scenario
RetryKeys == {"k1"}
RetryParams == {"p1"}
\* the key of the replace scenario, subscribed with one of two parameter sets
ReplaceKeys == {"k1"}
ReplaceParams == {"p1", "p2"}

VARIABLES
    subscriptions,      \* Map key -> channel handle
    reconnectAttempts,  \* Map key -> number
    channels,           \* bag of channels opened and not removed
    closing,            \* removed channels the transport has not released
    timers,             \* pending setTimeout callbacks, in scheduling order
    last,               \* the event handled last, with what it did
    intent,             \* per key, the caller's most recent explicit call
    resubs,             \* per key, automatic resubscribes since the caller
                        \* or a delivered message last touched the key
    exhausted,          \* keys whose retry bound was reached and that the
                        \* caller has not subscribed again
    recovered,          \* keys with a message delivered and no channel
                        \* error handled since
    late,               \* keys with a channel error of a removed channel
                        \* handled since the caller's last call for the key
    userSubscriptions,  \* RealtimeService.userSubscriptions
    sessionUser,        \* the user set up last, "none" after a cleanup
    orderLog,           \* the order payload delivered last and what the
                        \* handler of subscribeToUserOrders did with it
    auth,               \* AuthService: the profiles table, the profile
                        \* cache, the clock and the calls in flight
    refresh,            \* SessionManager: refreshTimer, the interval timers
                        \* running, the refreshes in flight; the AuthContext
                        \* user
    cart,               \* CartProvider: cartItems, the cart_items rows of
                        \* the user, the calls in flight
    limiter,            \* a limiter of createRateLimiter: its arguments,
                        \* its requests map, the clock, the calls granted
    monitor,            \* monitorConnection: connectionAttempts, the
                        \* interval timer, the checks in flight
    conn,               \* a call of checkConnection: its argument, its
                        \* position, the queries made and the waits
    reg                 \* a call of AuthService.register: its position,
                        \* the inserts made, the waits and the result

vars == <<subscriptions, reconnectAttempts, channels, closing, timers,
          last, intent, resubs, exhausted, recovered, late,
          userSubscriptions, sessionUser, orderLog, auth, refresh, cart,
          limiter, monitor, conn, reg>>

\* the realtime layer and the services beside it
realtimeVars == <<subscriptions, reconnectAttempts, channels, closing, timers,
                  last, intent, resubs, exhausted, recovered, late,
                  userSubscriptions, sessionUser, orderLog>>
serviceVars == <<auth, refresh, cart, limiter, monitor, conn, reg>>

\* ------------------------------------------------------------ Map helpers
EmptyMap == <<>>

MapHas(m, k) == k \in DOMAIN m

MapSet(m, k, v) == [x \in (DOMAIN m) \cup {k} |-> IF x = k THEN v ELSE m[x]]

MapDelete(m, k) == [x \in (DOMAIN m) \ {k} |-> m[x]]

\* Math.pow(2, n)
RECURSIVE Pow2(_)
Pow2(n) == IF n = 0 THEN 1 ELSE 2 * Pow2(n - 1)

\* a channel as the handlers registered on it see it: the key and the
\* parameters their closures captured
Channel(key, prm) == [key |-> key, prm |-> prm]

\* the manager and what its calls reach, as one value
Mgr == [subscriptions |-> subscriptions,
        reconnectAttempts |-> reconnectAttempts,
        channels |-> channels,
        closing |-> closing,
        timers |-> timers]

\* supabase.removeChannel(subscription)
removeChannel(m, ch) ==
    [m EXCEPT !.channels = @ (-) SetToBag({ch}),
              !.closing = @ \cup {ch}]

\* unsubscribe that deletes the attempts of the key outside the test
unsubscribe_deletesAlways(m, key) ==
    IF MapHas(m.subscriptions, key)
    THEN LET r == removeChannel(m, m.subscriptions[key])
         IN [r EXCEPT !.subscriptions = MapDelete(@, key),
                      !.reconnectAttempts = MapDelete(@, key)]
    ELSE [m EXCEPT !.reconnectAttempts = MapDelete(@, key)]

\* unsubscribe that clears the attempts of every key
unsubscribe_clearsAttempts(m, key) ==
    IF MapHas(m.subscriptions, key)
    THEN LET r == removeChannel(m, m.subscriptions[key])
         IN [r EXCEPT !.subscriptions = MapDelete(@, key),
                      !.reconnectAttempts = EmptyMap]
    ELSE m

\* SubscriptionManager.unsubscribe
unsubscribe(m, key) ==
    IF MapHas(m.subscriptions, key)
    THEN LET r == removeChannel(m, m.subscriptions[key])
         IN [r EXCEPT !.subscriptions = MapDelete(@, key),
                      !.reconnectAttempts = MapDelete(@, key)]
    ELSE m

\* subscribe without the teardown of the existing subscription
subscribe_noTeardown(m, key, prm) ==
    LET ch == Channel(key, prm)
    IN [m EXCEPT !.channels = @ (+) SetToBag({ch}),
                 !.subscriptions = MapSet(@, key, ch)]

\* SubscriptionManager.subscribe
subscribe(m, key, prm) ==
    LET u == unsubscribe(m, key)
        ch == Channel(key, prm)
    IN [u EXCEPT !.channels = @ (+) SetToBag({ch}),
                 !.subscriptions = MapSet(@, key, ch)]

\* the attempts read by handleSubscriptionError: get(key) || 0
attemptsOf(m, key) ==
    IF MapHas(m.reconnectAttempts, key) THEN m.reconnectAttempts[key] ELSE 0

\* a linear backoff instead of the exponential one
backoffDelay_linear(attempts) == (attempts + 1) * BASE_DELAY_MS

\* the delay of the timer handleSubscriptionError starts
backoffDelay(attempts) == Pow2(attempts) * BASE_DELAY_MS

\* the handler counting one attempt too many
handleSubscriptionError_offByOne(m, key, prm) ==
    LET attempts == attemptsOf(m, key)
    IN IF attempts <= MAX_RECONNECT_ATTEMPTS
       THEN [m EXCEPT !.reconnectAttempts = MapSet(@, key, attempts + 1),
                      !.timers = Append(@, [key |-> key, prm |-> prm,
                                            delay |-> backoffDelay(attempts)])]
       ELSE [m EXCEPT !.reconnectAttempts = MapDelete(@, key)]

\* the handler retrying with the parameters of the subscription tracked
\* now instead of those of the channel that failed
handleSubscriptionError_trackedParams(m, key, prm) ==
    LET attempts == attemptsOf(m, key)
        used == IF MapHas(m.subscriptions, key)
                THEN m.subscriptions[key].prm ELSE prm
    IN IF attempts < MAX_RECONNECT_ATTEMPTS
       THEN [m EXCEPT !.reconnectAttempts = MapSet(@, key, attempts + 1),
                      !.timers = Append(@, [key |-> key, prm |-> used,
                                            delay |-> backoffDelay(attempts)])]
       ELSE [m EXCEPT !.reconnectAttempts = MapDelete(@, key)]

\* SubscriptionManager.handleSubscriptionError
handleSubscriptionError(m, key, prm) ==
    LET attempts == attemptsOf(m, key)
    IN IF attempts < MAX_RECONNECT_ATTEMPTS
       THEN [m EXCEPT !.reconnectAttempts = MapSet(@, key, attempts + 1),
                      !.timers = Append(@, [key |-> key, prm |-> prm,
                                            delay |-> backoffDelay(attempts)])]
       ELSE [m EXCEPT !.reconnectAttempts = MapDelete(@, key)]

\* the handler without the reset of the attempts
onMessage_noReset(m, key, throws) == m

\* the handler treating a throwing callback as a channel failure
onMessage_throwTearsDown(m, key, throws) ==
    IF throws THEN unsubscribe(m, key)
    ELSE [m EXCEPT !.reconnectAttempts = MapSet(@, key, 0)]

\* the handler resetting the attempts whether the callback returned or not
onMessage_resetsAlways(m, key, throws) ==
    [m EXCEPT !.reconnectAttempts = MapSet(@, key, 0)]

\* the postgres_changes handler of subscribe: the callback, then the reset
onMessage(m, key, throws) ==
    IF throws THEN m
    ELSE [m EXCEPT !.reconnectAttempts = MapSet(@, key, 0)]

\* SubscriptionManager.unsubscribeAll
unsubscribeAll(m) ==
    [m EXCEPT !.closing = @ \cup {m.subscriptions[k] : k \in DOMAIN m.subscriptions},
              !.channels = @ (-) SetToBag({m.subscriptions[k] : k \in DOMAIN m.subscriptions}),
              !.subscriptions = EmptyMap,
              !.reconnectAttempts = EmptyMap]

\* SubscriptionManager.getActiveSubscriptions
getActiveSubscriptions == DOMAIN subscriptions

\* ------------------------------------------------------- RealtimeService
SessionUsers == {"u1", "u2"}
UserKinds == {"notifications", "orders", "cart"}

\* the keys `notifications_${userId}`, `orders_${userId}`, `cart_${userId}`
UserKey(kind, userId) ==
    CASE kind = "notifications" /\ userId = "u1" -> "notifications_u1"
      [] kind = "notifications" /\ userId = "u2" -> "notifications_u2"
      [] kind = "orders" /\ userId = "u1" -> "orders_u1"
      [] kind = "orders" /\ userId = "u2" -> "orders_u2"
      [] kind = "cart" /\ userId = "u1" -> "cart_u1"
      [] kind = "cart" /\ userId = "u2" -> "cart_u2"

UserKeys(userId) == {UserKey(kind, userId) : kind \in UserKinds}
AllUserKeys == UNION {UserKeys(u) : u \in SessionUsers}
PropertiesKey == "properties"

\* RealtimeService with the manager it drives
Svc == [mgr |-> Mgr, userSubscriptions |-> userSubscriptions]

\* userSubscriptions.forEach(key => SubscriptionManager.unsubscribe(key))
RECURSIVE unsubscribeEach(_, _)
unsubscribeEach(m, keys) ==
    IF keys = {} THEN m
    ELSE LET key == CHOOSE k \in keys : TRUE
         IN unsubscribeEach(unsubscribe(m, key), keys \ {key})

\* a cleanup that forgets the keys without unsubscribing them
cleanupUserSubscriptions_onlyClears(rs) ==
    [rs EXCEPT !.userSubscriptions = {}]

\* RealtimeService.cleanupUserSubscriptions
cleanupUserSubscriptions(rs) ==
    [mgr |-> unsubscribeEach(rs.mgr, rs.userSubscriptions),
     userSubscriptions |-> {}]

\* subscribeToUserNotifications / subscribeToUserOrders / subscribeToUserCart:
\* the callback and the filter are built from userId
subscribeToUser(rs, kind, userId) ==
    LET key == UserKey(kind, userId)
    IN [mgr |-> subscribe(rs.mgr, key, userId),
        userSubscriptions |-> rs.userSubscriptions \cup {key}]

\* RealtimeService.subscribeToProperties
subscribeToProperties(rs) ==
    [rs EXCEPT !.mgr = subscribe(@, PropertiesKey, "all")]

\* RealtimeService.setupUserSubscriptions
setupUserSubscriptions(rs, userId) ==
    LET c == cleanupUserSubscriptions(rs)
        n == subscribeToUser(c, "notifications", userId)
        o == subscribeToUser(n, "orders", userId)
        t == subscribeToUser(o, "cart", userId)
    IN subscribeToProperties(t)

\* ------------------------------------------------- order change payloads
EventTypes == {"INSERT", "UPDATE", "DELETE"}
OrderStatuses == {"pending", "paid"}

PaymentStatuses == {"unpaid", "settled"}

\* payload.new / payload.old: null (NoRow), the object {} the realtime
\* client puts where the change has no row (EmptyRow), or a row of the
\* orders table; "" stands for undefined
NoRow == [present |-> FALSE, user_id |-> "", status |-> "",
          payment_status |-> ""]
EmptyRow == [present |-> TRUE, user_id |-> "", status |-> "",
             payment_status |-> ""]
OrderRows == {[present |-> TRUE, user_id |-> u, status |-> st,
               payment_status |-> ps] :
                  u \in SessionUsers, st \in OrderStatuses,
                  ps \in PaymentStatuses}
Rows == {NoRow, EmptyRow} \cup OrderRows
Payloads == [eventType : EventTypes, new : Rows, old : Rows]

\* payload.new?.user_id === userId
RowIsOf(row, userId) == row.present /\ row.user_id = userId

\* the handler looking at payload.new only
orderHandler_newOnly(userId, payload, throws) ==
    IF RowIsOf(payload.new, userId)
    THEN [calls |-> 1,
          events |-> IF throws THEN <<>>
                     ELSE IF payload.eventType = "INSERT"
                          THEN <<"order:created">>
                     ELSE IF payload.eventType = "UPDATE"
                             /\ payload.new.present /\ payload.old.present
                          THEN <<"order:updated">>
                     ELSE <<>>]
    ELSE [calls |-> 0, events |-> <<>>]

\* the callback subscribeToUserOrders hands to the manager: how often it
\* calls the caller's callback (which returns or throws) and the order
\* events it dispatches; getChanges fails on a missing row
orderHandler(userId, payload, throws) ==
    IF RowIsOf(payload.new, userId) \/ RowIsOf(payload.old, userId)
    THEN [calls |-> 1,
          events |-> IF throws THEN <<>>
                     ELSE IF payload.eventType = "INSERT"
                          THEN <<"order:created">>
                     ELSE IF payload.eventType = "UPDATE"
                             /\ payload.new.present /\ payload.old.present
                          THEN <<"order:updated">>
                     ELSE <<>>]
    ELSE [calls |-> 0, events |-> <<>>]

\* Object.keys of a record
RowKeys(row) ==
    IF row = EmptyRow THEN {} ELSE {"user_id", "status", "payment_status"}

\* RealtimeService.getChanges: the keys of newRecord whose values differ
getChanges(oldRecord, newRecord) ==
    {key \in RowKeys(newRecord) : oldRecord[key] # newRecord[key]}

\* the handler announcing a status change on every update
handleOrderUpdate_anyUpdate(payload) ==
    IF payload.eventType = "UPDATE" /\ payload.new.present
       /\ payload.old.present
    THEN <<"order:status-changed">>
    ELSE <<>>

\* RealtimeService.handleOrderUpdate: the events it dispatches, in order
handleOrderUpdate(payload) ==
    IF payload.eventType = "UPDATE" /\ payload.new.present
       /\ payload.old.present
    THEN LET changes == getChanges(payload.old, payload.new)
         IN (IF "status" \in changes
             THEN <<"order:status-changed">> ELSE <<>>)
            \o (IF "payment_status" \in changes
                THEN <<"order:payment-status-changed">> ELSE <<>>)
    ELSE <<>>

\* the handler of subscribeToUserOrders with the callback that
\* setupUserSubscriptions gives it: handleOrderUpdate, which returns
userOrderEvents(userId, payload) ==
    LET h == orderHandler(userId, payload, FALSE)
    IN [calls |-> h.calls,
        events |-> (IF h.calls = 1 THEN handleOrderUpdate(payload)
                    ELSE <<>>) \o h.events]

\* the payloads the realtime client builds from a change of the orders
\* table: new is a row on INSERT and UPDATE, old is a row or (without
\* full replica identity) an object without the columns on UPDATE and
\* DELETE, and {} stands where the change has no row
DeliveredPayloads ==
    {p \in Payloads :
        /\ p.new # NoRow /\ p.old # NoRow
        /\ p.eventType = "INSERT" => p.new \in OrderRows /\ p.old = EmptyRow
        /\ p.eventType = "UPDATE" => p.new \in OrderRows
        /\ p.eventType = "DELETE" => p.new = EmptyRow}

NoDelivery ==
    [userId |-> "", payload |-> [eventType |-> "INSERT", new |-> NoRow,
                                 old |-> NoRow],
     throws |-> FALSE, calls |-> 0, events |-> <<>>]

\* ----------------------------------------------------------- AuthService
MaxVersion == 2         \* successful profile updates per user
MaxInFlight == 2        \* getProfile calls waiting for the backend
MaxClock == 3           \* ticks of the clock

CACHE_DURATION == 5 * 60 * 1000
CLOCK_TICK_MS == 150000

ProfileUsers == {"u1", "u2"}

\* a profile: whose it is and which version of the row it shows
NoProfile == [id |-> "", ver |-> 0]
\* localStorage without the cache key
NoCache == [profile |-> NoProfile, timestamp |-> -1]

AuthInit ==
    [backend |-> [u \in ProfileUsers |-> 0],
     cache |-> NoCache,
     now |-> 0,
     gets |-> {},
     ups |-> {},
     confirmed |-> [u \in ProfileUsers |-> 0],
     last |-> [op |-> "none", userId |-> "", ret |-> NoProfile]]

AuthEvent(op, userId, ret) == [op |-> op, userId |-> userId, ret |-> ret]

\* AuthService.clearProfileCache
clearProfileCache(a) == [a EXCEPT !.cache = NoCache]

\* AuthService.cacheProfile
cacheProfile(a, profile) ==
    [a EXCEPT !.cache = [profile |-> profile, timestamp |-> a.now]]

\* a lookup that does not compare the profile's id
getCachedProfile_anyUser(a, userId) ==
    IF a.cache = NoCache
    THEN [a |-> a, profile |-> NoProfile, hit |-> FALSE]
    ELSE IF a.now - a.cache.timestamp > CACHE_DURATION
    THEN [a |-> clearProfileCache(a), profile |-> NoProfile, hit |-> FALSE]
    ELSE [a |-> a, profile |-> a.cache.profile, hit |-> TRUE]

\* AuthService.getCachedProfile: the profile served, if any, and the
\* service after the lookup
getCachedProfile(a, userId) ==
    IF a.cache = NoCache
    THEN [a |-> a, profile |-> NoProfile, hit |-> FALSE]
    ELSE IF a.now - a.cache.timestamp > CACHE_DURATION
    THEN [a |-> clearProfileCache(a), profile |-> NoProfile, hit |-> FALSE]
    ELSE IF a.cache.profile.id # userId
    THEN [a |-> clearProfileCache(a), profile |-> NoProfile, hit |-> FALSE]
    ELSE [a |-> a, profile |-> a.cache.profile, hit |-> TRUE]

\* getProfile up to the answer of the profiles query: the cache is looked
\* up; on a miss the backend is read, and the row read waits for
\* supabase.auth.getUser(), unless the query reports an error
GetProfileStart(userId, ok) ==
    LET c == getCachedProfile(auth, userId)
    IN IF c.hit
       THEN auth' = [c.a EXCEPT
                        !.last = AuthEvent("cacheHit", userId, c.profile)]
       ELSE IF ~ok
       THEN auth' = [c.a EXCEPT
                        !.last = AuthEvent("queryFailed", userId, NoProfile)]
       ELSE /\ Cardinality(auth.gets) < MaxInFlight
            /\ LET row == [id |-> userId, ver |-> auth.backend[userId]]
               IN auth' = [c.a EXCEPT
                              !.gets = @ \cup {row},
                              !.last = AuthEvent("queried", userId, row)]

\* getProfile after getUser() has answered: the profile is cached and
\* returned
GetProfileReturn(row) ==
    /\ row \in auth.gets
    /\ auth' = [cacheProfile(auth, row) EXCEPT
                    !.gets = @ \ {row},
                    !.last = AuthEvent("fetched", row.id, row)]

\* updateProfile up to the answer of the update: the row is written,
\* unless the update reports an error
UpdateProfileStart(userId, ok) ==
    /\ userId \notin {u.id : u \in auth.ups}
    /\ IF ~ok
       THEN auth' = [auth EXCEPT
                        !.last = AuthEvent("updateFailed", userId, NoProfile)]
       ELSE /\ auth.backend[userId] < MaxVersion
            /\ LET row == [id |-> userId, ver |-> auth.backend[userId] + 1]
               IN auth' = [auth EXCEPT
                              !.backend[userId] = row.ver,
                              !.ups = @ \cup {row},
                              !.last = AuthEvent("written", userId, row)]

\* updateProfile after the update has answered: the cache is cleared and
\* success returned
UpdateProfileReturn(row) ==
    /\ row \in auth.ups
    /\ auth' = [clearProfileCache(auth) EXCEPT
                    !.ups = @ \ {row},
                    !.confirmed[row.id] = row.ver,
                    !.last = AuthEvent("updated", row.id, row)]

\* login and logout clear the cache
AuthCacheCleared ==
    auth' = [clearProfileCache(auth) EXCEPT
                !.last = AuthEvent("cleared", "", NoProfile)]

\* time passes
ClockTick ==
    /\ auth.now < MaxClock * CLOCK_TICK_MS
    /\ auth' = [auth EXCEPT !.now = @ + CLOCK_TICK_MS,
                            !.last = AuthEvent("tick", "", NoProfile)]

\* the realtime layer is not involved
AuthFrame ==
    UNCHANGED <<realtimeVars, refresh, cart, limiter, monitor, conn, reg>>

\* profile reads and updates of the users, overlapping
NextAuth ==
    \/ \E userId \in ProfileUsers, ok \in BOOLEAN :
           GetProfileStart(userId, ok) /\ AuthFrame
    \/ \E row \in auth.gets : GetProfileReturn(row) /\ AuthFrame
    \/ \E userId \in ProfileUsers, ok \in BOOLEAN :
           UpdateProfileStart(userId, ok) /\ AuthFrame
    \/ \E row \in auth.ups : UpdateProfileReturn(row) /\ AuthFrame
    \/ AuthCacheCleared /\ AuthFrame
    \/ ClockTick /\ AuthFrame

\* -------------------------------------------------------- SessionManager
MaxRefreshing == 1      \* refreshSession calls waiting for their answer

RefreshInit ==
    [refreshTimer |-> 0,        \* null
     intervals |-> {},
     refreshing |-> 0,
     user |-> "none",
     last |-> [op |-> "none", dispatched |-> <<>>]]

RefreshEvent(op, dispatched) == [op |-> op, dispatched |-> dispatched]

\* SessionManager.stopAutoRefresh
stopAutoRefresh(r) ==
    IF r.refreshTimer # 0
    THEN [r EXCEPT !.intervals = @ \ {r.refreshTimer}, !.refreshTimer = 0]
    ELSE r

\* setInterval: a handle no running timer has
setInterval(r) == CHOOSE id \in 1..(Cardinality(r.intervals) + 1) :
                      id \notin r.intervals

\* a start that leaves the running timer alone
startAutoRefresh_noStop(r) ==
    LET id == setInterval(r)
    IN [r EXCEPT !.intervals = @ \cup {id}, !.refreshTimer = id]

\* SessionManager.startAutoRefresh
startAutoRefresh(r) ==
    LET s == stopAutoRefresh(r)
        id == setInterval(s)
    IN [s EXCEPT !.intervals = @ \cup {id}, !.refreshTimer = id]

\* the application: RealtimeService with its manager, SessionManager and
\* the AuthContext user
App == [svc |-> Svc, refresh |-> refresh]

\* a handler that leaves the user in place
handleSessionExpired_keepsUser(app) ==
    [app EXCEPT !.svc = cleanupUserSubscriptions(@)]

\* AuthProvider.handleSessionExpired
handleSessionExpired(app) ==
    [app EXCEPT !.refresh.user = "none",
                !.svc = cleanupUserSubscriptions(@)]

\* window.dispatchEvent('auth:session-expired'): the listener of
\* RealtimeService, then the listener of AuthProvider
sessionExpiredDispatched(app) ==
    handleSessionExpired([app EXCEPT !.svc = cleanupUserSubscriptions(@)])

\* ---------------------------------------------------------- CartProvider
MaxCalls == 2           \* cart calls waiting for the backend
MaxItems == 3           \* items of the local cart

Plots == {"p1", "p2"}
CallIds == 1..MaxCalls

\* a signed-in user with an empty cart
CartInit ==
    [cartItems |-> <<>>,
     rows |-> {},
     calls |-> {},
     last |-> [op |-> "none", plotId |-> ""]]

CartEvent(op, plotId) == [op |-> op, plotId |-> plotId]

\* cartItems.find(item => item.plotId === plot.id)
InCart(c, plotId) == \E i \in DOMAIN c.cartItems : c.cartItems[i] = plotId

\* prev.filter(item => item.plotId !== plotId)
WithoutPlot(items, plotId) == SelectSeq(items, LAMBDA x : x # plotId)

FreeCallIds == CallIds \ {c.id : c \in cart.calls}
AddsInFlight == Cardinality({c \in cart.calls : c.op = "add"})

\* addToCart up to the request: nothing is sent for a plot in cartItems
AddToCartStart(plotId) ==
    IF InCart(cart, plotId)
    THEN cart' = [cart EXCEPT !.last = CartEvent("addSkipped", plotId)]
    ELSE /\ FreeCallIds # {}
         /\ Len(cart.cartItems) + AddsInFlight < MaxItems
         /\ LET id == CHOOSE i \in FreeCallIds : TRUE
            IN cart' = [cart EXCEPT
                   !.calls = @ \cup {[id |-> id, op |-> "add",
                                      plotId |-> plotId, stage |-> "sent"]},
                   !.last = CartEvent("addSent", plotId)]

\* removeFromCart up to the request
RemoveFromCartStart(plotId) ==
    /\ FreeCallIds # {}
    /\ LET id == CHOOSE i \in FreeCallIds : TRUE
       IN cart' = [cart EXCEPT
              !.calls = @ \cup {[id |-> id, op |-> "remove",
                                 plotId |-> plotId, stage |-> "sent"]},
              !.last = CartEvent("removeSent", plotId)]

\* clearCart up to the request
ClearCartStart ==
    /\ FreeCallIds # {}
    /\ LET id == CHOOSE i \in FreeCallIds : TRUE
       IN cart' = [cart EXCEPT
              !.calls = @ \cup {[id |-> id, op |-> "clear",
                                 plotId |-> "", stage |-> "sent"]},
              !.last = CartEvent("clearSent", "")]

\* the cart_items table serves a request of the user: an insert fails on
\* UNIQUE(user_id, plot_id); any request can fail
cartItemsTable(rows, call, fails) ==
    IF fails THEN [rows |-> rows, stage |-> "failed"]
    ELSE IF call.op = "add"
    THEN IF call.plotId \in rows
         THEN [rows |-> rows, stage |-> "failed"]
         ELSE [rows |-> rows \cup {call.plotId}, stage |-> "ok"]
    ELSE IF call.op = "remove"
    THEN [rows |-> rows \ {call.plotId}, stage |-> "ok"]
    ELSE [rows |-> {}, stage |-> "ok"]

\* the backend serves a request
CartBackend(call, fails) ==
    /\ call \in cart.calls
    /\ call.stage = "sent"
    /\ LET served == cartItemsTable(cart.rows, call, fails)
       IN cart' = [cart EXCEPT
              !.rows = served.rows,
              !.calls = (@ \ {call})
                           \cup {[call EXCEPT !.stage = served.stage]},
              !.last = CartEvent("served", call.plotId)]

\* the call resumes with the answer: setCartItems on success, nothing on
\* an error
CartReturn(call) ==
    /\ call \in cart.calls
    /\ call.stage # "sent"
    /\ cart' = [cart EXCEPT
           !.calls = @ \ {call},
           !.cartItems =
               IF call.stage = "failed" THEN @
               ELSE IF call.op = "add" THEN Append(@, call.plotId)
               ELSE IF call.op = "remove" THEN WithoutPlot(@, call.plotId)
               ELSE <<>>,
           !.last = CartEvent(IF call.stage = "failed" THEN "failed"
                              ELSE call.op, call.plotId)]

CartFrame ==
    UNCHANGED <<realtimeVars, auth, refresh, limiter, monitor, conn, reg>>

\* the cart calls of a user, overlapping
NextCart ==
    \/ \E plotId \in Plots : AddToCartStart(plotId) /\ CartFrame
    \/ \E plotId \in Plots : RemoveFromCartStart(plotId) /\ CartFrame
    \/ ClearCartStart /\ CartFrame
    \/ \E call \in cart.calls, fails \in BOOLEAN :
           CartBackend(call, fails) /\ CartFrame
    \/ \E call \in cart.calls : CartReturn(call) /\ CartFrame

\* -------------------------------------------------------- SecurityUtils
MaxLimit == 1           \* maxRequests
MaxWindow == 2          \* windowMs
MaxTime == 3            \* the clock, in ms

Identifiers == {"a", "b"}

\* no limiter has been made
LimiterInit ==
    [made |-> FALSE, maxRequests |-> 0, windowMs |-> 0,
     requests |-> EmptyMap,
     now |-> 0,
     granted |-> [id \in Identifiers |-> <<>>],
     last |-> [op |-> "none", identifier |-> "", allowed |-> FALSE]]

\* createRateLimiter(maxRequests, windowMs)
CreateRateLimiter(maxRequests, windowMs) ==
    /\ ~limiter.made
    /\ limiter' = [limiter EXCEPT
           !.made = TRUE,
           !.maxRequests = maxRequests,
           !.windowMs = windowMs,
           !.last = [op |-> "create", identifier |-> "", allowed |-> FALSE]]

\* a limiter that records the call before it decides
rateLimiter_recordsRejected(l, identifier) ==
    LET windowStart == l.now - l.windowMs
        userRequests == IF MapHas(l.requests, identifier)
                        THEN l.requests[identifier] ELSE <<>>
        validRequests == Append(SelectSeq(userRequests,
                                          LAMBDA time : time > windowStart),
                                l.now)
    IN [requests |-> MapSet(l.requests, identifier, validRequests),
        allowed |-> Len(validRequests) <= l.maxRequests]

\* the function createRateLimiter returns: the requests map after the
\* call and the result
rateLimiter(l, identifier) ==
    LET windowStart == l.now - l.windowMs
        known == IF MapHas(l.requests, identifier) THEN l.requests
                 ELSE MapSet(l.requests, identifier, <<>>)
        validRequests == SelectSeq(known[identifier],
                                   LAMBDA time : time > windowStart)
    IN IF Len(validRequests) >= l.maxRequests
       THEN [requests |-> known, allowed |-> FALSE]
       ELSE [requests |-> MapSet(known, identifier,
                                 Append(validRequests, l.now)),
             allowed |-> TRUE]

\* a call of the limiter
LimiterCall(identifier) ==
    LET r == rateLimiter(limiter, identifier)
    IN /\ limiter.made
       /\ limiter' = [limiter EXCEPT
           !.requests = r.requests,
           !.granted[identifier] =
               IF r.allowed THEN Append(@, limiter.now) ELSE @,
           !.last = [op |-> "call", identifier |-> identifier,
                     allowed |-> r.allowed]]

\* Date.now() moves on
LimiterTick ==
    /\ limiter.made
    /\ limiter.now < MaxTime
    /\ limiter' = [limiter EXCEPT
           !.now = @ + 1,
           !.last = [op |-> "tick", identifier |-> "", allowed |-> FALSE]]

LimiterFrame ==
    UNCHANGED <<realtimeVars, auth, refresh, cart, monitor, conn, reg>>

\* calls of one limiter at non-decreasing times
NextLimiter ==
    \/ \E maxRequests \in 0..MaxLimit, windowMs \in 1..MaxWindow :
           CreateRateLimiter(maxRequests, windowMs) /\ LimiterFrame
    \/ \E identifier \in Identifiers : LimiterCall(identifier) /\ LimiterFrame
    \/ LimiterTick /\ LimiterFrame

\* ------------------------------------------------------ monitorConnection
MaxChecks == 2          \* checks waiting for checkConnection

MAX_CONNECTION_ATTEMPTS == 3

DEFAULT_RETRIES == 3

\* the failed queries a check in flight can have behind it
Progress == 0..(DEFAULT_RETRIES - 1)

\* monitorConnection() has been called once
MonitorInit ==
    [connectionAttempts |-> 0,
     interval |-> TRUE,         \* checkInterval is running
     checks |-> [p \in Progress |-> 0],
     last |-> [op |-> "none", running |-> TRUE]]

MonitorEvent(op, running) == [op |-> op, running |-> running]

ChecksInFlight == monitor.checks[0] + monitor.checks[1] + monitor.checks[2]

\* the interval fires: the callback calls checkConnection() and waits
MonitorTick ==
    /\ monitor.interval
    /\ ChecksInFlight < MaxChecks
    /\ monitor' = [monitor EXCEPT
           !.checks[0] = @ + 1,
           !.last = MonitorEvent("tick", TRUE)]

\* the callback after checkConnection() has answered
monitorChecked(m, isHealthy) ==
    IF ~isHealthy
    THEN LET n == m.connectionAttempts + 1
         IN [m EXCEPT
                !.connectionAttempts = n,
                !.interval = IF n >= MAX_CONNECTION_ATTEMPTS THEN FALSE ELSE @,
                !.last = MonitorEvent("unhealthy", m.interval)]
    ELSE [m EXCEPT
             !.connectionAttempts = 0,
             !.last = MonitorEvent("healthy", m.interval)]

\* a query of a check in flight answers: checkConnection() returns true
\* at once, tries again, or returns false after its last query
MonitorQueryAnswered(p, ok) ==
    /\ monitor.checks[p] > 0
    /\ LET left == [monitor EXCEPT !.checks[p] = @ - 1]
       IN monitor' =
            IF ok THEN monitorChecked(left, TRUE)
            ELSE IF p < DEFAULT_RETRIES - 1
            THEN [left EXCEPT !.checks[p + 1] = @ + 1,
                              !.last = MonitorEvent("retry", monitor.interval)]
            ELSE monitorChecked(left, FALSE)

\* the function monitorConnection returned is called
MonitorStop ==
    monitor' = [monitor EXCEPT
        !.interval = FALSE,
        !.last = MonitorEvent("stop", monitor.interval)]

MonitorFrame ==
    UNCHANGED <<realtimeVars, auth, refresh, cart, limiter, conn, reg>>

\* one monitor
NextMonitor ==
    \/ MonitorTick /\ MonitorFrame
    \/ \E p \in Progress, ok \in BOOLEAN :
           MonitorQueryAnswered(p, ok) /\ MonitorFrame
    \/ MonitorStop /\ MonitorFrame

\* ------------------------------------------------------- checkConnection
MaxRetries == 4         \* the argument of checkConnection

\* checkConnection has not been called
ConnInit ==
    [retries |-> 0, i |-> 0, phase |-> "idle", answers |-> <<>>,
     waits |-> <<>>, result |-> FALSE]

\* checkConnection(retries) is called: the loop is at its head
CheckConnection(retries) ==
    /\ conn.phase = "idle"
    /\ conn' = [conn EXCEPT !.retries = retries, !.phase = "loop"]

\* a call that waits after the last attempt too
connAnswered_alwaysWaits(c, answer) ==
    LET asked == [c EXCEPT !.answers = Append(@, answer)]
    IN IF answer = "ok"
       THEN [asked EXCEPT !.phase = "done", !.result = TRUE]
       ELSE [asked EXCEPT !.phase = "waiting",
                          !.waits = Append(@, 1000 * (c.i + 1))]

\* the body of the loop once the query has answered: without an error,
\* with an error, or by throwing
connAnswered(c, answer) ==
    LET asked == [c EXCEPT !.answers = Append(@, answer)]
    IN IF answer = "ok"
       THEN [asked EXCEPT !.phase = "done", !.result = TRUE]
       ELSE IF c.i < c.retries - 1
       THEN [asked EXCEPT !.phase = "waiting",
                          !.waits = Append(@, 1000 * (c.i + 1))]
       ELSE [asked EXCEPT !.phase = "loop", !.i = @ + 1]

\* the head of the loop: another query, or return false
ConnLoop ==
    /\ conn.phase = "loop"
    /\ conn' = IF conn.i < conn.retries
               THEN [conn EXCEPT !.phase = "query"]
               ELSE [conn EXCEPT !.phase = "done", !.result = FALSE]

\* the query answers
ConnAnswered(answer) ==
    /\ conn.phase = "query"
    /\ conn' = connAnswered(conn, answer)

\* the wait is over: i++
ConnWaited ==
    /\ conn.phase = "waiting"
    /\ conn' = [conn EXCEPT !.phase = "loop", !.i = @ + 1]

ConnFrame ==
    UNCHANGED <<realtimeVars, auth, refresh, cart, limiter, monitor, reg>>

\* one call of checkConnection
NextConn ==
    \/ \E retries \in 0..MaxRetries : CheckConnection(retries) /\ ConnFrame
    \/ ConnLoop /\ ConnFrame
    \/ \E answer \in {"ok", "error", "throws"} :
           ConnAnswered(answer) /\ ConnFrame
    \/ ConnWaited /\ ConnFrame

\* -------------------------------------------------- AuthService.register
MAX_PROFILE_ATTEMPTS == 3

RegUsers == {"u1", "u2"}

\* register has not been called
RegInit ==
    [phase |-> "idle", user |-> "", attempts |-> 0, profileCreated |-> FALSE,
     answers |-> <<>>, waits |-> <<>>, dispatched |-> <<>>,
     result |-> "none"]

\* register(userData) is called: invalid data is refused, otherwise
\* signUp is awaited
Register(valid) ==
    /\ reg.phase = "idle"
    /\ reg' = IF valid THEN [reg EXCEPT !.phase = "signUp"]
              ELSE [reg EXCEPT !.phase = "done", !.result = "failure"]

\* signUp answers: with the user created, with an error, without a user,
\* or by throwing
SignUpAnswered(answer, user) ==
    /\ reg.phase = "signUp"
    /\ reg' = IF answer = "user"
              THEN [reg EXCEPT !.phase = "loop", !.user = user]
              ELSE [reg EXCEPT !.phase = "done", !.result = "failure"]

\* an insert answer handled without the duplicate-key exception
regInserted_duplicateFails(r, answer) ==
    LET asked == [r EXCEPT !.answers = Append(@, answer), !.phase = "loop"]
    IN IF answer = "ok"
       THEN [asked EXCEPT !.profileCreated = TRUE]
       ELSE LET n == r.attempts + 1
            IN IF n >= MAX_PROFILE_ATTEMPTS
               THEN [asked EXCEPT !.attempts = n]
               ELSE [asked EXCEPT !.attempts = n, !.phase = "waiting",
                                  !.waits = Append(@, 1000 * n)]

\* the body of the while loop once the insert has answered: without an
\* error, with the duplicate-key error 23505, with another error, or by
\* throwing
regInserted(r, answer) ==
    LET asked == [r EXCEPT !.answers = Append(@, answer), !.phase = "loop"]
    IN IF answer \in {"ok", "duplicate"}
       THEN [asked EXCEPT !.profileCreated = TRUE]
       ELSE LET n == r.attempts + 1
            IN IF n >= MAX_PROFILE_ATTEMPTS
               THEN [asked EXCEPT !.attempts = n]
               ELSE [asked EXCEPT !.attempts = n, !.phase = "waiting",
                                  !.waits = Append(@, 1000 * n)]

\* the head of the while loop: another insert, or 'auth:registered' is
\* dispatched and success returned
RegLoop ==
    /\ reg.phase = "loop"
    /\ reg' = IF ~reg.profileCreated /\ reg.attempts < MAX_PROFILE_ATTEMPTS
              THEN [reg EXCEPT !.phase = "insert"]
              ELSE [reg EXCEPT !.phase = "done", !.result = "success",
                               !.dispatched = <<"auth:registered">>]

\* the insert answers
RegInserted(answer) ==
    /\ reg.phase = "insert"
    /\ reg' = regInserted(reg, answer)

\* the wait before the next attempt is over
RegWaited ==
    /\ reg.phase = "waiting"
    /\ reg' = [reg EXCEPT !.phase = "loop"]

RegFrame ==
    UNCHANGED <<realtimeVars, auth, refresh, cart, limiter, monitor, conn>>

\* one call of register
NextRegister ==
    \/ \E valid \in BOOLEAN : Register(valid) /\ RegFrame
    \/ \E answer \in {"user", "error", "noUser", "throws"},
          user \in RegUsers : SignUpAnswered(answer, user) /\ RegFrame
    \/ RegLoop /\ RegFrame
    \/ \E answer \in {"ok", "duplicate", "error", "throws"} :
           RegInserted(answer) /\ RegFrame
    \/ RegWaited /\ RegFrame

\* ----------------------------------------------------------------- state
\* an event: what happened, to which key, with which parameters, whether
\* the key was tracked and which attempts it had when the event began, and
\* the delay of the timer the event started (0: none)
NoEvent == [op |-> "none", key |-> "", prm |-> "", tracked |-> FALSE,
            n |-> 0, delay |-> 0]

Event(op, key, prm, n, delay) ==
    [op |-> op, key |-> key, prm |-> prm,
     tracked |-> MapHas(subscriptions, key), n |-> n, delay |-> delay]

ErrorOps == {"error", "lateError"}

Init ==
    /\ subscriptions = EmptyMap
    /\ reconnectAttempts = EmptyMap
    /\ channels = EmptyBag
    /\ closing = {}
    /\ timers = <<>>
    /\ last = NoEvent
    /\ intent = [k \in Keys |-> "none"]
    /\ resubs = [k \in Keys |-> 0]
    /\ exhausted = {}
    /\ recovered = {}
    /\ late = {}
    /\ userSubscriptions = {}
    /\ sessionUser = "none"
    /\ orderLog = NoDelivery
    /\ auth = AuthInit
    /\ refresh = RefreshInit
    /\ cart = CartInit
    /\ limiter = LimiterInit
    /\ monitor = MonitorInit
    /\ conn = ConnInit
    /\ reg = RegInit

\* the manager's calls take effect
Commit(m) ==
    /\ subscriptions' = m.subscriptions
    /\ reconnectAttempts' = m.reconnectAttempts
    /\ channels' = m.channels
    /\ closing' = m.closing
    /\ timers' = m.timers

\* channels whose handlers can still be invoked
Open == BagToSet(channels)
Live == Open \cup closing

\* timers i that can be the next to fire: a timer started earlier with a
\* delay that is not longer fires first
CanFire(i) ==
    \A j \in 1..(i - 1) : timers[j].delay > timers[i].delay

\* pending timers that will resubscribe a key
TimersFor(k) == {i \in 1..Len(timers) : timers[i].key = k}

RemoveAt(s, i) == SubSeq(s, 1, i - 1) \o SubSeq(s, i + 1, Len(s))

\* --------------------------------------------------------------- actions
\* the caller: SubscriptionManager.subscribe(key, table, callback, ...)
Subscribe(key, prm) ==
    /\ Commit(subscribe(Mgr, key, prm))
    /\ last' = Event("subscribe", key, prm, attemptsOf(Mgr, key), 0)

\* the caller: SubscriptionManager.unsubscribe(key)
Unsubscribe(key) ==
    /\ Commit(unsubscribe(Mgr, key))
    /\ last' = Event("unsubscribe", key, "", attemptsOf(Mgr, key), 0)

\* the caller: SubscriptionManager.unsubscribeAll()
UnsubscribeAll ==
    /\ Commit(unsubscribeAll(Mgr))
    /\ last' = Event("unsubscribeAll", "", "", 0, 0)

\* the transport reports CHANNEL_ERROR on a channel (system event or
\* subscribe status); late when the channel was already removed.  cap is
\* the number of pending timers the model keeps.
ChannelError(ch, cap) ==
    LET n == attemptsOf(Mgr, ch.key)
        m == handleSubscriptionError(Mgr, ch.key, ch.prm)
        started == Len(m.timers) > Len(timers)
    IN /\ ch \in Live
       /\ Len(m.timers) <= cap
       /\ Commit(m)
       /\ last' = Event(IF ch \in Open THEN "error" ELSE "lateError",
                        ch.key, ch.prm, n,
                        IF started THEN m.timers[Len(m.timers)].delay ELSE 0)

\* a postgres_changes message arrives on a channel; the callback returns
\* or throws
Message(ch, throws) ==
    /\ ch \in Live
    /\ Commit(onMessage(Mgr, ch.key, throws))
    /\ last' = Event(IF throws THEN "messageThrew" ELSE "message",
                     ch.key, ch.prm, attemptsOf(Mgr, ch.key), 0)

\* a setTimeout callback of handleSubscriptionError runs
TimerFire(i) ==
    LET t == timers[i]
    IN /\ i \in 1..Len(timers)
       /\ CanFire(i)
       /\ Commit(subscribe([Mgr EXCEPT !.timers = RemoveAt(@, i)], t.key, t.prm))
       /\ last' = Event("timer", t.key, t.prm, attemptsOf(Mgr, t.key), t.delay)

\* the transport lets go of a removed channel: its handlers run no more
ChannelClosed(ch) ==
    /\ ch \in closing
    /\ closing' = closing \ {ch}
    /\ last' = Event("closed", ch.key, ch.prm, 0, 0)
    /\ UNCHANGED <<subscriptions, reconnectAttempts, channels, timers>>

\* ------------------------------------------------------------- observers
\* what the caller asked for last, per key, and the keys for which the
\* handlers of a removed channel started a retry since
TrackIntent ==
    /\ intent' = CASE last'.op = "subscribe" ->
                          [intent EXCEPT ![last'.key] = last'.prm]
                   [] last'.op = "unsubscribe" ->
                          [intent EXCEPT ![last'.key] = "unsubscribe"]
                   [] last'.op = "unsubscribeAll" ->
                          [k \in Keys |-> "unsubscribeAll"]
                   [] OTHER -> intent
    /\ late' = CASE last'.op \in {"subscribe", "unsubscribe"} ->
                        late \ {last'.key}
                 [] last'.op = "unsubscribeAll" -> {}
                 [] last'.op = "lateError" -> late \cup {last'.key}
                 [] OTHER -> late

\* the retry cycle of a key as an observer of the events sees it.  resubs
\* counts the resubscribes of an unbroken chain channel error, timer,
\* resubscribe, channel error, ...: one error per channel, reported while
\* the channel is open and no other timer is pending for the key.
TrackRetry ==
    /\ resubs' = CASE last'.op \in {"subscribe", "unsubscribe", "message",
                                    "lateError"} ->
                         [resubs EXCEPT ![last'.key] = 0]
                   [] last'.op = "unsubscribeAll" -> [k \in Keys |-> 0]
                   [] last'.op = "error" /\ TimersFor(last'.key) # {} ->
                         [resubs EXCEPT ![last'.key] = 0]
                   [] last'.op = "timer" ->
                         [resubs EXCEPT ![last'.key] =
                             IF Cardinality(TimersFor(last'.key)) = 1
                             THEN @ + 1 ELSE 0]
                   [] OTHER -> resubs
    /\ exhausted' = CASE last'.op = "subscribe" -> exhausted \ {last'.key}
                      [] last'.op \in ErrorOps /\ last'.delay = 0 ->
                            exhausted \cup {last'.key}
                      [] OTHER -> exhausted
    /\ recovered' = CASE last'.op = "message" -> recovered \cup {last'.key}
                      [] last'.op \in ErrorOps -> recovered \ {last'.key}
                      [] OTHER -> recovered

Observe ==
    /\ TrackIntent
    /\ UNCHANGED <<resubs, exhausted, recovered>>
    /\ UNCHANGED <<userSubscriptions, sessionUser, orderLog>>
    /\ UNCHANGED serviceVars

ObserveRetry ==
    /\ TrackRetry
    /\ UNCHANGED <<intent, late>>
    /\ UNCHANGED <<userSubscriptions, sessionUser, orderLog>>
    /\ UNCHANGED serviceVars

\* ------------------------------------------------------ session actions
SessionEvent(op, userId) ==
    [op |-> op, key |-> "", prm |-> userId, tracked |-> FALSE,
     n |-> 0, delay |-> 0]

\* RealtimeService takes effect
CommitSvc(rs) ==
    /\ Commit(rs.mgr)
    /\ userSubscriptions' = rs.userSubscriptions

\* a user logs in: AuthContext and the 'auth:login' listener call
\* setupUserSubscriptions(userId)
Login(userId) ==
    /\ CommitSvc(setupUserSubscriptions(Svc, userId))
    /\ last' = SessionEvent("login", userId)
    /\ sessionUser' = userId

\* logout: AuthContext.logout and the 'auth:logout' listener
Logout ==
    /\ CommitSvc(cleanupUserSubscriptions(Svc))
    /\ last' = SessionEvent("logout", "")
    /\ sessionUser' = "none"

\* the 'auth:session-expired' listeners
SessionExpired ==
    /\ CommitSvc(cleanupUserSubscriptions(Svc))
    /\ last' = SessionEvent("sessionExpired", "")
    /\ sessionUser' = "none"

\* the manager's events under a session: the keys a removed channel
\* started a retry for are remembered
ObserveSession ==
    /\ late' = IF last'.op = "lateError" THEN late \cup {last'.key} ELSE late
    /\ UNCHANGED <<intent, resubs, exhausted, recovered>>
    /\ UNCHANGED <<userSubscriptions, sessionUser, orderLog>>
    /\ UNCHANGED serviceVars

SessionFrame ==
    /\ UNCHANGED <<intent, resubs, exhausted, recovered, late, orderLog>>
    /\ UNCHANGED serviceVars

\* a change of the orders table reaches the handler of subscribeToUserOrders
OrderMessage(userId, payload, throws) ==
    /\ orderLog' = [userId |-> userId, payload |-> payload, throws |-> throws]
                       @@ orderHandler(userId, payload, throws)
    /\ UNCHANGED <<subscriptions, reconnectAttempts, channels, closing,
                   timers, last, intent, resubs, exhausted, recovered, late,
                   userSubscriptions, sessionUser>>
    /\ UNCHANGED serviceVars

\* a change of the orders table reaches the handler that
\* setupUserSubscriptions registered for the user
OrderChange(userId, payload) ==
    /\ orderLog' = [userId |-> userId, payload |-> payload, throws |-> FALSE]
                       @@ userOrderEvents(userId, payload)
    /\ UNCHANGED <<subscriptions, reconnectAttempts, channels, closing,
                   timers, last, intent, resubs, exhausted, recovered, late,
                   userSubscriptions, sessionUser>>
    /\ UNCHANGED serviceVars

\* ------------------------------------------------ session refresh actions
\* the application takes effect
CommitApp(app, op, dispatched) ==
    /\ CommitSvc(app.svc)
    /\ refresh' = [app.refresh EXCEPT !.last = RefreshEvent(op, dispatched)]

\* a successful login: AuthService.login starts the refresh, clears the
\* cache and dispatches 'auth:login' (RealtimeService sets the user up);
\* AuthProvider.login then stores the profile and sets the user up again
AuthLogin(userId) ==
    LET started == [App EXCEPT !.refresh = startAutoRefresh(@),
                               !.svc = setupUserSubscriptions(@, userId)]
        fetched == [started EXCEPT !.refresh.user = userId,
                                   !.svc = setupUserSubscriptions(@, userId)]
    IN /\ CommitApp(fetched, "login", <<"auth:login">>)
       /\ auth' = clearProfileCache(auth)
       /\ last' = SessionEvent("login", userId)
       /\ sessionUser' = userId

\* a logout: AuthProvider.logout cleans up, AuthService.logout stops the
\* refresh and clears the cache; when signOut succeeds 'auth:logout' is
\* dispatched (RealtimeService cleans up) and the user is dropped
AuthLogout(ok) ==
    LET stopped == [App EXCEPT !.svc = cleanupUserSubscriptions(@),
                               !.refresh = stopAutoRefresh(@)]
        out == IF ok
               THEN [stopped EXCEPT !.svc = cleanupUserSubscriptions(@),
                                    !.refresh.user = "none"]
               ELSE stopped
    IN /\ CommitApp(out, IF ok THEN "logout" ELSE "logoutFailed",
                    IF ok THEN <<"auth:logout">> ELSE <<>>)
       /\ auth' = clearProfileCache(auth)
       /\ last' = SessionEvent("logout", "")
       /\ sessionUser' = "none"

\* a running interval timer fires: refreshSession is called
IntervalFires(id) ==
    /\ id \in refresh.intervals
    /\ refresh.refreshing < MaxRefreshing
    /\ refresh' = [refresh EXCEPT !.refreshing = @ + 1,
                                  !.last = RefreshEvent("refresh", <<>>)]
    /\ UNCHANGED <<realtimeVars, auth, cart, limiter, monitor, conn, reg>>

\* refreshSession answers: with a session, with an error (the session has
\* expired: 'auth:session-expired' is dispatched) or by throwing
RefreshAnswered(outcome) ==
    /\ refresh.refreshing > 0
    /\ LET answered == [App EXCEPT !.refresh.refreshing = @ - 1]
       IN IF outcome = "error"
          THEN /\ CommitApp(sessionExpiredDispatched(answered),
                            "refreshError", <<"auth:session-expired">>)
               /\ last' = SessionEvent("sessionExpired", "")
               /\ sessionUser' = "none"
          ELSE /\ refresh' = [answered.refresh EXCEPT
                                 !.last = RefreshEvent(
                                     IF outcome = "ok" THEN "refreshOk"
                                     ELSE "refreshThrew", <<>>)]
               /\ UNCHANGED <<subscriptions, reconnectAttempts, channels,
                              closing, timers, userSubscriptions, last,
                              sessionUser>>
    /\ UNCHANGED auth

\* what the session actions leave alone
ExpiryFrame ==
    UNCHANGED <<intent, resubs, exhausted, recovered, late, orderLog, cart,
                limiter, monitor, conn, reg>>

\* -------------------------------------------------------- specifications
\* two keys, few timers pending
Next ==
    \/ \E key \in Keys, prm \in Params : Subscribe(key, prm) /\ Observe
    \/ \E key \in Keys : Unsubscribe(key) /\ Observe
    \/ UnsubscribeAll /\ Observe
    \/ \E ch \in Live : ChannelError(ch, MaxPending) /\ Observe
    \/ \E ch \in Live, throws \in BOOLEAN : Message(ch, throws) /\ Observe
    \/ \E i \in 1..Len(timers) : TimerFire(i) /\ Observe
    \/ \E ch \in closing : ChannelClosed(ch) /\ Observe

Spec == Init /\ [][Next]_vars

\* one key retried to the bound and beyond
NextRetry ==
    \/ \E key \in RetryKeys, prm \in RetryParams :
          Subscribe(key, prm) /\ ObserveRetry
    \/ \E key \in RetryKeys : Unsubscribe(key) /\ ObserveRetry
    \/ UnsubscribeAll /\ ObserveRetry
    \/ \E ch \in Live : ChannelError(ch, MaxTimers) /\ ObserveRetry
    \/ \E ch \in Live, throws \in BOOLEAN : Message(ch, throws) /\ ObserveRetry
    \/ \E i \in 1..Len(timers) :
          /\ resubs[timers[i].key] < MaxResubs
          /\ TimerFire(i) /\ ObserveRetry
    \/ \E ch \in closing : ChannelClosed(ch) /\ ObserveRetry

SpecRetry == Init /\ [][NextRetry]_vars

\* one key subscribed again and again with different parameters
NextReplace ==
    \/ \E key \in ReplaceKeys, prm \in ReplaceParams :
          Subscribe(key, prm) /\ Observe
    \/ \E key \in ReplaceKeys : Unsubscribe(key) /\ Observe
    \/ UnsubscribeAll /\ Observe
    \/ \E ch \in Live : ChannelError(ch, MaxPending) /\ Observe
    \/ \E ch \in Live, throws \in BOOLEAN : Message(ch, throws) /\ Observe
    \/ \E i \in 1..Len(timers) : TimerFire(i) /\ Observe
    \/ \E ch \in closing : ChannelClosed(ch) /\ Observe

SpecReplace == Init /\ [][NextReplace]_vars

\* logins, logouts and expired sessions over the manager's events; the
\* channels of SessionEventKeys report errors and deliver messages
SessionEventKeys == {"orders_u1"}

NextSession ==
    \/ \E userId \in SessionUsers : Login(userId) /\ SessionFrame
    \/ Logout /\ SessionFrame
    \/ SessionExpired /\ SessionFrame
    \/ \E ch \in Live : /\ ch.key \in SessionEventKeys
                         /\ ChannelError(ch, MaxPending) /\ ObserveSession
    \/ \E ch \in Live, throws \in BOOLEAN :
           /\ ch.key \in SessionEventKeys
           /\ Message(ch, throws) /\ ObserveSession
    \/ \E i \in 1..Len(timers) : TimerFire(i) /\ ObserveSession
    \/ \E ch \in closing : ChannelClosed(ch) /\ ObserveSession

SpecSession == Init /\ [][NextSession]_vars

\* order payloads delivered to the handler of subscribeToUserOrders
NextOrders ==
    \E userId \in SessionUsers, payload \in Payloads, throws \in BOOLEAN :
        OrderMessage(userId, payload, throws)

SpecOrders == Init /\ [][NextOrders]_vars

\* changes of the orders table delivered to a set-up user
NextOrderEvents ==
    \E userId \in SessionUsers, payload \in DeliveredPayloads :
        OrderChange(userId, payload)

SpecOrderEvents == Init /\ [][NextOrderEvents]_vars

SpecAuth == Init /\ [][NextAuth]_vars

\* logins, logouts and the periodic refresh of the session, over retries
\* of the manager
NextExpiry ==
    \/ \E userId \in SessionUsers : AuthLogin(userId) /\ ExpiryFrame
    \/ \E ok \in BOOLEAN : AuthLogout(ok) /\ ExpiryFrame
    \/ \E id \in refresh.intervals : IntervalFires(id) /\ ExpiryFrame
    \/ \E outcome \in {"ok", "error", "throws"} :
           RefreshAnswered(outcome) /\ ExpiryFrame
    \/ \E ch \in Live : /\ ch.key \in SessionEventKeys
                         /\ ChannelError(ch, MaxPending) /\ ObserveSession
    \/ \E i \in 1..Len(timers) : TimerFire(i) /\ ObserveSession

SpecExpiry == Init /\ [][NextExpiry]_vars

SpecCart == Init /\ [][NextCart]_vars

SpecLimiter == Init /\ [][NextLimiter]_vars

SpecMonitor == Init /\ [][NextMonitor]_vars

SpecConn == Init /\ [][NextConn]_vars

\* the backend answers every request and every timeout elapses
SpecRegister == Init /\ [][NextRegister]_vars /\ WF_vars(NextRegister)

\* ------------------------------------------------------------ properties
\* channels open at the realtime client that were opened for a key
OpenFor(k) ==
    LET own == {c \in BagToSet(channels) : c.key = k}
    IN BagCardinality([c \in own |-> channels[c]])

\* C1: at most one channel opened by the manager is open for any key, and
\* a subscribe call leaves exactly one open for its key, also when the key
\* was tracked before the call.
C1_OneChannelPerKey ==
    /\ \A k \in Keys : OpenFor(k) <= 1
    /\ last.op = "subscribe" => OpenFor(last.key) = 1

C1_Witness ==
    /\ last.op = "subscribe"
    /\ last.tracked
    /\ Channel(last.key, last.prm) \in closing
    /\ OpenFor(last.key) = 1

\* C2: after unsubscribe(key), and until the caller subscribes the key
\* again, the key is not tracked and no channel is open for it, whatever
\* timers started before the call fire.
C2_NoResurrection ==
    \A k \in Keys :
        (intent[k] = "unsubscribe" /\ k \notin late) =>
            k \notin getActiveSubscriptions /\ OpenFor(k) = 0

\* C3: when every subscribe and resubscribe of a key ends in one channel
\* error, with no message delivered and no call of the caller in between,
\* the key is resubscribed at most MAX_RECONNECT_ATTEMPTS times.
C3_RetriesBounded ==
    \A k \in Keys : resubs[k] <= MAX_RECONNECT_ATTEMPTS

\* C4: after unsubscribeAll(), and until the caller subscribes again, no
\* key is tracked: no timer pending at the call resubscribes later.
C4_UnsubscribeAllStays ==
    (late = {} /\ \A k \in Keys : intent[k] = "unsubscribeAll") =>
        getActiveSubscriptions = {}

\* C5: a channel error that reads n < 5 attempts stores n + 1 and starts one
\* timer of 1000 * 2^n ms (1000, 2000, 4000, 8000, 16000 for n = 0..4); one
\* that reads n >= 5 starts no timer and deletes the key's attempts.
C5_BackoffSchedule ==
    last.op \in ErrorOps =>
        IF last.n < 5
        THEN /\ MapHas(reconnectAttempts, last.key)
             /\ reconnectAttempts[last.key] = last.n + 1
             /\ last.delay = <<1000, 2000, 4000, 8000, 16000>>[last.n + 1]
             /\ timers # <<>>
             /\ timers[Len(timers)] =
                    [key |-> last.key, prm |-> last.prm, delay |-> last.delay]
        ELSE /\ last.delay = 0
             /\ ~MapHas(reconnectAttempts, last.key)

C5_Witness ==
    /\ last.op = "error"
    /\ last.n = 5
    /\ [i \in 1..Len(timers) |-> timers[i].delay] =
           <<1000, 2000, 4000, 8000, 16000>>

\* C6: a message whose callback returns sets the key's attempts to 0, and
\* the first channel error handled for the key after it starts a timer of
\* 1000 ms.
C6_DeliveryResets ==
    [][ /\ last'.op = "message" =>
              /\ MapHas(reconnectAttempts', last'.key)
              /\ reconnectAttempts'[last'.key] = 0
        /\ (last'.op \in ErrorOps /\ last'.key \in recovered) =>
              last'.delay = BASE_DELAY_MS ]_vars

C6_Witness ==
    /\ last.op = "message"
    /\ last.n >= 2
    /\ reconnectAttempts[last.key] = 0

\* C7: at most one retry timer is pending per key.
C7_OneTimerPerKey ==
    \A k \in Keys : Cardinality(TimersFor(k)) <= 1

\* C8: the subscription tracked for a key has the parameters of the
\* caller's most recent subscribe call for the key, whatever timers that
\* were pending at that call do.
C8_LatestParamsKept ==
    \A k \in Keys :
        (intent[k] \in ReplaceParams /\ k \notin late
            /\ MapHas(subscriptions, k)) =>
                subscriptions[k].prm = intent[k]

\* C9: a channel error that reads MAX_RECONNECT_ATTEMPTS attempts leaves
\* the key without attempts and untracked.
C9_ExhaustedPurged ==
    (last.op \in ErrorOps /\ last.n >= MAX_RECONNECT_ATTEMPTS) =>
        /\ ~MapHas(reconnectAttempts, last.key)
        /\ last.key \notin getActiveSubscriptions

\* C10: once a key's retry bound was reached, and until the caller
\* subscribes the key again, no timer is started for the key and no timer
\* resubscribes it.
C10_ExhaustedTerminal ==
    \A k \in exhausted :
        last.key = k =>
            /\ last.op # "timer"
            /\ ~(last.op \in ErrorOps /\ last.delay > 0)

\* C11: a message whose callback throws changes nothing: the channel stays
\* open, the key stays tracked with the same handle, no attempts are
\* stored, no timer is started, and the channel can deliver the next
\* message.
C11_CallbackThrowKeepsChannel ==
    [][ last'.op = "messageThrew" =>
            /\ subscriptions' = subscriptions
            /\ reconnectAttempts' = reconnectAttempts
            /\ channels' = channels
            /\ closing' = closing
            /\ timers' = timers
            /\ Channel(last'.key, last'.prm) \in Live' ]_vars

C11_Witness ==
    /\ last.op = "messageThrew"
    /\ last.tracked
    /\ MapHas(subscriptions, last.key)
    /\ subscriptions[last.key] \in Open
    /\ timers = <<>>

\* C12: when unsubscribe(key) has returned, the manager holds no channel
\* handle and no attempts for the key.
C12_UnsubscribeRemovesAll ==
    last.op = "unsubscribe" =>
        /\ ~MapHas(subscriptions, last.key)
        /\ ~MapHas(reconnectAttempts, last.key)

\* C13: unsubscribe(key) of a key that is not tracked changes nothing, and
\* a second unsubscribe(key) changes nothing the first one left.
C13_UnsubscribeIdempotent ==
    \A k \in Keys :
        /\ ~MapHas(subscriptions, k) => unsubscribe(Mgr, k) = Mgr
        /\ unsubscribe(unsubscribe(Mgr, k), k) = unsubscribe(Mgr, k)

C13_Witness ==
    /\ last.op = "unsubscribe"
    /\ ~last.tracked
    /\ MapHas(reconnectAttempts, last.key)
    /\ Channel(last.key, "p1") \in closing

\* the attempts of a key were lowered or deleted by the step
AttemptsDropped(k) ==
    /\ MapHas(reconnectAttempts, k)
    /\ \/ ~MapHas(reconnectAttempts', k)
       \/ reconnectAttempts'[k] < reconnectAttempts[k]

\* C14: a channel error that retries raises the attempts of its key by one,
\* and the attempts of a key are lowered or deleted only by a message whose
\* callback returned, by a subscribe or resubscribe of the key, by an
\* unsubscribe or unsubscribeAll, or by the channel error that gives up.
C14_AttemptsMonotone ==
    [][ /\ \A k \in Keys :
              AttemptsDropped(k) =>
                  \/ last'.op = "unsubscribeAll"
                  \/ /\ last'.key = k
                     /\ \/ last'.op \in {"message", "subscribe", "timer",
                                         "unsubscribe"}
                        \/ /\ last'.op \in ErrorOps
                           /\ last'.n >= MAX_RECONNECT_ATTEMPTS
        /\ (last'.op \in ErrorOps /\ last'.n < MAX_RECONNECT_ATTEMPTS) =>
              /\ MapHas(reconnectAttempts', last'.key)
              /\ reconnectAttempts'[last'.key] =
                     attemptsOf(Mgr, last'.key) + 1 ]_vars

C14_Witness ==
    /\ last.op = "timer"
    /\ last.n >= 3
    /\ ~MapHas(reconnectAttempts, last.key)

\* C15: the attempts stored for a key are an integer from 0 to
\* MAX_RECONNECT_ATTEMPTS.
C15_AttemptsInRange ==
    \A k \in DOMAIN reconnectAttempts :
        reconnectAttempts[k] \in 0..MAX_RECONNECT_ATTEMPTS

C15_Witness ==
    /\ last.op = "error"
    /\ MapHas(reconnectAttempts, last.key)
    /\ reconnectAttempts[last.key] = MAX_RECONNECT_ATTEMPTS

\* the operations on one key
KeyOps == {"subscribe", "unsubscribe", "message", "messageThrew", "error",
           "lateError", "timer"}

\* C16: subscribe, unsubscribe, a message, a channel error and a timer fire
\* for one key leave the handle and the attempts of every other key as
\* they were.
C16_KeysIndependent ==
    [][ last'.op \in KeyOps =>
            \A k \in Keys \ {last'.key} :
                /\ MapHas(subscriptions', k) = MapHas(subscriptions, k)
                /\ MapHas(subscriptions, k) =>
                       subscriptions'[k] = subscriptions[k]
                /\ MapHas(reconnectAttempts', k) = MapHas(reconnectAttempts, k)
                /\ MapHas(reconnectAttempts, k) =>
                       reconnectAttempts'[k] = reconnectAttempts[k] ]_vars

C16_Witness ==
    /\ last.op = "unsubscribe"
    /\ last.tracked
    /\ last.key = "k1"
    /\ MapHas(subscriptions, "k2")
    /\ MapHas(reconnectAttempts, "k2")
    /\ reconnectAttempts["k2"] = 1

\* C17: the timer a channel error starts holds the key and the parameters
\* of the channel that failed, and the subscription a timer makes when it
\* fires has the key and the parameters the timer holds.
C17_RetryKeepsParams ==
    [][ /\ (last'.op \in ErrorOps /\ last'.delay > 0) =>
              /\ Len(timers') = Len(timers) + 1
              /\ timers'[Len(timers')].key = last'.key
              /\ timers'[Len(timers')].prm = last'.prm
        /\ last'.op = "timer" =>
              \E i \in 1..Len(timers) :
                  /\ timers' = RemoveAt(timers, i)
                  /\ MapHas(subscriptions', timers[i].key)
                  /\ subscriptions'[timers[i].key] =
                         Channel(timers[i].key, timers[i].prm)
                  /\ last'.prm = timers[i].prm ]_vars

C17_Witness ==
    /\ last.op = "timer"
    /\ last.prm = "p2"
    /\ MapHas(subscriptions, last.key)
    /\ subscriptions[last.key].prm = "p2"
    /\ intent[last.key] = "p1"

C19_UserKeysOfCurrentUser ==
    \A k \in (getActiveSubscriptions \cap AllUserKeys) \ late :
        /\ sessionUser \in SessionUsers
        /\ k \in UserKeys(sessionUser)

\* C20: the handler of subscribeToUserOrders calls the callback once when
\* payload.new.user_id or payload.old.user_id is the userId, and otherwise
\* neither calls it nor dispatches an order event.
C20_OrderHandlerFilters ==
    LET p == orderLog.payload
        mine == \/ p.new.present /\ p.new.user_id = orderLog.userId
                \/ p.old.present /\ p.old.user_id = orderLog.userId
    IN /\ mine => orderLog.calls = 1
       /\ ~mine => orderLog.calls = 0 /\ orderLog.events = <<>>

C20_Witness ==
    /\ orderLog.calls = 1
    /\ orderLog.userId = "u1"
    /\ orderLog.payload.eventType = "DELETE"
    /\ ~orderLog.payload.new.present
    /\ orderLog.payload.old.present
    /\ orderLog.payload.old.user_id = "u1"

C22_NoStaleProfileAfterUpdate ==
    auth.last.op = "cacheHit" =>
        auth.last.ret.ver >= auth.confirmed[auth.last.userId]

\* C23: getProfile serves the cached profile only if its id is the userId
\* asked for and it was cached at most CACHE_DURATION ago; otherwise the
\* cache entry is cleared and the backend answers; the profile returned
\* always has the id asked for.
C23_CacheHitIsFreshAndOwn ==
    [][ /\ auth'.last.op = "cacheHit" =>
            /\ auth.cache # NoCache
            /\ auth.cache.profile.id = auth'.last.userId
            /\ auth.now - auth.cache.timestamp <= CACHE_DURATION
            /\ auth'.last.ret = auth.cache.profile
        /\ auth'.last.op \in {"queried", "queryFailed"} =>
            /\ \/ auth.cache = NoCache
               \/ auth.cache.profile.id # auth'.last.userId
               \/ auth.now - auth.cache.timestamp > CACHE_DURATION
            /\ auth'.cache = NoCache
        /\ auth'.last.op \in {"cacheHit", "fetched"} =>
            auth'.last.ret.id = auth'.last.userId ]_vars

C23_Witness ==
    /\ auth.last.op = "cacheHit"
    /\ auth.last.userId = "u1"
    /\ auth.cache.timestamp >= 0
    /\ auth.now - auth.cache.timestamp = CACHE_DURATION

\* C24: at most one refresh interval timer runs, it is the one
\* refreshTimer holds, none runs after a logout has stopped the refresh,
\* and stopping twice is stopping once.
C24_OneRefreshTimer ==
    /\ Cardinality(refresh.intervals) <= 1
    /\ refresh.intervals =
           IF refresh.refreshTimer = 0 THEN {} ELSE {refresh.refreshTimer}
    /\ refresh.last.op \in {"logout", "logoutFailed"} =>
           refresh.intervals = {}
    /\ stopAutoRefresh(refresh).intervals = {}
    /\ stopAutoRefresh(stopAutoRefresh(refresh)) = stopAutoRefresh(refresh)

C24_Witness ==
    /\ refresh.last.op = "login"
    /\ refresh.refreshing = 1
    /\ sessionUser = "u2"
    /\ Channel("orders_u1", "u1") \in closing
    /\ Cardinality(refresh.intervals) = 1

\* C25: a refresh that reports an error dispatches 'auth:session-expired',
\* and when that has been handled every key RealtimeService had registered
\* is untracked without retry state, its set of keys is empty and the
\* AuthContext user is null.
C25_RefreshErrorExpiresSession ==
    [][ /\ refresh'.last.op = "refreshError" =>
            /\ refresh'.last.dispatched = <<"auth:session-expired">>
            /\ userSubscriptions' = {}
            /\ \A k \in userSubscriptions :
                   /\ ~MapHas(subscriptions', k)
                   /\ ~MapHas(reconnectAttempts', k)
            /\ refresh'.user = "none"
        /\ (refresh.refreshing > 0 /\ refresh'.refreshing < refresh.refreshing
            /\ refresh'.last.op # "refreshError") =>
               /\ refresh'.last.op \in {"refreshOk", "refreshThrew"}
               /\ refresh'.user = refresh.user ]_vars

C25_Witness ==
    /\ refresh.last.op = "refreshError"
    /\ refresh.user = "none"
    /\ userSubscriptions = {}
    /\ Channel("orders_u1", "u1") \in closing
    /\ ~MapHas(subscriptions, "orders_u1")
    /\ timers # <<>>

\* C26: the local cart never holds two items with the same plotId.
C26_NoDuplicatePlot ==
    \A i, j \in DOMAIN cart.cartItems :
        i # j => cart.cartItems[i] # cart.cartItems[j]

\* the times recorded for an identifier
RecordedTimes(l, id) == IF MapHas(l.requests, id) THEN l.requests[id] ELSE <<>>

\* C27: for every identifier at most maxRequests calls were granted among
\* the calls at times t .. t+windowMs-1 (a window of windowMs
\* milliseconds); a refused call leaves the recorded times of every
\* identifier as they were and a call leaves the times of the other
\* identifiers alone; the result only depends on the calls granted to the
\* same identifier.
C27_WindowLimit ==
    [][ /\ \A id \in Identifiers : \A t \in 0..limiter'.now :
               Cardinality({i \in DOMAIN limiter'.granted[id] :
                               /\ limiter'.granted[id][i] >= t
                               /\ limiter'.granted[id][i]
                                      < t + limiter'.windowMs})
                   <= limiter'.maxRequests
        /\ limiter'.last.op = "call" =>
              LET identifier == limiter'.last.identifier
              IN /\ \A id \in Identifiers :
                        (id # identifier \/ ~limiter'.last.allowed)
                           => RecordedTimes(limiter', id)
                                 = RecordedTimes(limiter, id)
                 /\ limiter'.last.allowed <=>
                        Cardinality({i \in DOMAIN limiter.granted[identifier] :
                            limiter.granted[identifier][i]
                                > limiter.now - limiter.windowMs})
                          < limiter.maxRequests ]_vars

C27_Witness ==
    /\ limiter.last.op = "call"
    /\ limiter.last.allowed
    /\ limiter.last.identifier = "a"
    /\ limiter.maxRequests = 1
    /\ limiter.windowMs = 2
    /\ Len(limiter.granted["a"]) = 2
    /\ Len(limiter.granted["b"]) = 1
    /\ Len(limiter.requests["a"]) = 1

\* C28: the counter of unhealthy checks never exceeds
\* MAX_CONNECTION_ATTEMPTS.
C28_MonitorBounded ==
    monitor.connectionAttempts <= MAX_CONNECTION_ATTEMPTS

\* C29: once signUp has created the user, register makes at most 3
\* profile inserts, stops at the first insert that answers without an
\* error or with the duplicate-key error, and ends with success: true,
\* also when all 3 inserts failed.
C29_RegisterSucceeds ==
    /\ [](reg.user # "" =>
            /\ Len(reg.answers) <= MAX_PROFILE_ATTEMPTS
            /\ \A k \in DOMAIN reg.answers :
                   reg.answers[k] \in {"ok", "duplicate"} =>
                      k = Len(reg.answers) /\ reg.profileCreated
            /\ reg.phase = "done" =>
                   /\ reg.result = "success"
                   /\ reg.profileCreated \/
                         Len(reg.answers) = MAX_PROFILE_ATTEMPTS)
    /\ (reg.user # "" ~> (reg.phase = "done" /\ reg.result = "success"))

C29_Witness ==
    /\ reg.user = "u1"
    /\ reg.phase = "done"
    /\ reg.result = "success"
    /\ reg.answers = <<"error", "throws", "duplicate">>
    /\ reg.waits = <<1000, 2000>>

\* C30: checkConnection(retries) makes at most retries queries, returns
\* true at the first query without an error and makes no further query,
\* returns false after retries failed queries (without a query when
\* retries is 0), and waits 1000*(i+1) ms after failed attempt i exactly
\* when another attempt follows.
C30_CheckConnectionBounded ==
    LET n == Len(conn.answers)
        failed == {k \in 1..n : conn.answers[k] # "ok"}
    IN /\ n <= conn.retries
       /\ \A k \in 1..n : conn.answers[k] = "ok" => k = n
       /\ (n > 0 /\ conn.answers[n] = "ok") =>
              conn.phase = "done" /\ conn.result
       /\ conn.phase = "done" =>
              /\ conn.result <=> (n > 0 /\ conn.answers[n] = "ok")
              /\ ~conn.result => n = conn.retries
       /\ \A k \in DOMAIN conn.waits : conn.waits[k] = 1000 * k
       /\ Len(conn.waits) =
              Cardinality({k \in failed : k < conn.retries})

C30_Witness ==
    /\ conn.retries = 3
    /\ conn.phase = "done"
    /\ ~conn.result
    /\ conn.answers = <<"error", "throws", "error">>
    /\ conn.waits = <<1000, 2000>>

====
